---- MODULE Spec2Model ----
(***************************************************************************)
(* Model of gridding/functions/gridfunctions.py: the coordinate/index      *)
(* mapping, the three weight generators (trilinear, footprint box,         *)
(* inverse distance), the min/max scanner and the three splatting          *)
(* accumulators that add weighted sample values into two caller-owned      *)
(* grids (imagenum = weight sums, imagesum = value-weighted sums).         *)
(*                                                                         *)
(* Floating-point numbers are modelled as exact rationals <<n, d>> with    *)
(* d > 0 in lowest terms; not-a-number is <<0, 0>>.  math.sqrt is exact on *)
(* squares of rationals and otherwise rounded to a multiple of             *)
(* 1/SqrtScale; a distance is compared with the radius through its square. *)
(***************************************************************************)
EXTENDS Integers, Sequences, FiniteSets, TLC

VARIABLES
    tieRule,    \* the tie-break rule of helperfunctions.round_int
    fin,        \* arguments of a generator / scanner call under test
    fout,       \* its result
    imagenum,   \* weight-sum grid      (caller-owned, mutated in place)
    imagesum,   \* value-weighted grid  (caller-owned, mutated in place)
    pc,         \* position of the running splat call
    call,       \* arguments of the running splat call
    i,          \* sample loop index (0-based, as in the code)
    last,       \* the sample handled last and what each contribution did
    hist        \* bookkeeping about the calls so far (not program state)

vars == <<tieRule, fin, fout, imagenum, imagesum, pc, call, i, last, hist>>

-----------------------------------------------------------------------------
(* Bounds of the model *)

NX == 2
NY == 1
NZ == 1
MaxSamples == 2
MaxCalls == 2
Vmax == 2
MaxLen == 3
IdxDen == 4
IdxRange == 1
SqrtScale == 10

-----------------------------------------------------------------------------
(* Numbers *)

Abs(n) == IF n < 0 THEN -n ELSE n

RECURSIVE Gcd(_, _)
Gcd(a, b) == IF b = 0 THEN a ELSE Gcd(b, a % b)

Rat(n, d) ==
    LET s == IF d < 0 THEN -1 ELSE 1
        g == Gcd(Abs(n), Abs(d))
    IN  <<(s * n) \div g, (s * d) \div g>>

Num(n) == <<n, 1>>
NaN == <<0, 0>>
IsNaN(a) == a[2] = 0

RAdd(a, b) == Rat(a[1] * b[2] + b[1] * a[2], a[2] * b[2])
RSub(a, b) == Rat(a[1] * b[2] - b[1] * a[2], a[2] * b[2])
RMul(a, b) == Rat(a[1] * b[1], a[2] * b[2])
RDiv(a, b) == Rat(a[1] * b[2], a[2] * b[1])
RLt(a, b) == a[1] * b[2] < b[1] * a[2]
RLe(a, b) == a[1] * b[2] <= b[1] * a[2]
Zero == Num(0)
One == Num(1)
Half == Rat(1, 2)

\* float comparisons: any comparison with not-a-number is false
FGt(a, b) == ~IsNaN(a) /\ ~IsNaN(b) /\ RLt(b, a)
FLt(a, b) == ~IsNaN(a) /\ ~IsNaN(b) /\ RLt(a, b)

Floor(a) == a[1] \div a[2]
Ceil(a) == -((-a[1]) \div a[2])
\* a remainder that truncates toward zero (C's fmod) instead
Mod1_trunc(a) ==
    RSub(a, Num(IF a[1] < 0 THEN -((-a[1]) \div a[2]) ELSE a[1] \div a[2]))
\* Python's  a % 1  on floats: the result lies in [0, 1)
Mod1(a) == RSub(a, Num(Floor(a)))

RECURSIVE ISqrt(_, _)
\* the largest k with k * k <= n, searched from k upward
ISqrt(n, k) == IF (k + 1) * (k + 1) <= n THEN ISqrt(n, k + 1) ELSE k
IsSquare(n) == ISqrt(n, 0) * ISqrt(n, 0) = n

RECURSIVE SqrtSearch(_, _)
SqrtSearch(q, k) ==
    IF (2 * k + 1) * (2 * k + 1) * q[2] <= 4 * q[1] * SqrtScale * SqrtScale
    THEN SqrtSearch(q, k + 1)
    ELSE k
\* math.sqrt: exact on squares of rationals, otherwise rounded to the
\* nearest multiple of 1/SqrtScale
Sqrt(q) ==
    IF IsSquare(q[1]) /\ IsSquare(q[2])
    THEN Rat(ISqrt(q[1], 0), ISqrt(q[2], 0))
    ELSE Rat(SqrtSearch(q, 0), SqrtScale)

\* an array built element by element, as a tuple
Array(f) == f \o <<>>

RECURSIVE SumSeq(_)
SumSeq(s) == IF s = <<>> THEN Zero ELSE RAdd(Head(s), SumSeq(Tail(s)))

TieRules == {"even", "away"}

\* helperfunctions.round_int: nearest integer; the rule for an exact tie is
\* not fixed by the specification, so it is a parameter of the behaviour
round_int(val) ==
    LET f == Floor(val)
        m == Mod1(val)
    IN  IF RLt(m, Half) THEN f
        ELSE IF RLt(Half, m) THEN f + 1
        ELSE CASE tieRule = "even" -> IF f % 2 = 0 THEN f ELSE f + 1
               [] tieRule = "away" -> IF f >= 0 THEN f + 1 ELSE f
               [] OTHER -> f + 1

-----------------------------------------------------------------------------
(* MinMax scanner *)

MinMaxStep(acc, x, y, z) ==
    [minx |-> IF ~FGt(x, acc.minx) THEN x ELSE acc.minx,
     maxx |-> IF ~FLt(x, acc.maxx) THEN x ELSE acc.maxx,
     miny |-> IF ~FGt(y, acc.miny) THEN y ELSE acc.miny,
     maxy |-> IF ~FLt(y, acc.maxy) THEN y ELSE acc.maxy,
     minz |-> IF ~FGt(z, acc.minz) THEN z ELSE acc.minz,
     maxz |-> IF ~FLt(z, acc.maxz) THEN z ELSE acc.maxz]

RECURSIVE MinMaxLoop(_, _, _, _, _)
MinMaxLoop(sx, sy, sz, k, acc) ==
    IF k > Len(sx) THEN acc
    ELSE MinMaxLoop(sx, sy, sz, k + 1, MinMaxStep(acc, sx[k], sy[k], sz[k]))

MinMaxStart ==
    [minx |-> NaN, maxx |-> NaN, miny |-> NaN, maxy |-> NaN,
     minz |-> NaN, maxz |-> NaN]

get_minmax(sx, sy, sz) ==
    IF ~(Len(sx) = Len(sy) /\ Len(sy) = Len(sz))
    THEN [status |-> "AssertionError", out |-> MinMaxStart]
    ELSE [status |-> "ok", out |-> MinMaxLoop(sx, sy, sz, 1, MinMaxStart)]

-----------------------------------------------------------------------------
(* Coordinate-index mapper *)

get_index(val, grd_val_min, grd_res) ==
    round_int(RDiv(RSub(val, grd_val_min), grd_res))

get_index_fraction(val, grd_val_min, grd_res) ==
    RDiv(RSub(val, grd_val_min), grd_res)

get_value(index, grd_val_min, grd_res) ==
    RAdd(grd_val_min, RMul(grd_res, Num(index)))

get_grd_value(value, grd_val_min, grd_res) ==
    get_value(get_index(value, grd_val_min, grd_res), grd_val_min, grd_res)

-----------------------------------------------------------------------------
(* Trilinear neighbour weights *)

get_index_vals(fraction_index_x, fraction_index_y, fraction_index_z) ==
    LET ifraction_x == Mod1(fraction_index_x)
        ifraction_y == Mod1(fraction_index_y)
        ifraction_z == Mod1(fraction_index_z)
        fraction_x == RSub(One, ifraction_x)
        fraction_y == RSub(One, ifraction_y)
        fraction_z == RSub(One, ifraction_z)
        ix1 == Floor(fraction_index_x)
        ix2 == Ceil(fraction_index_x)
        iy1 == Floor(fraction_index_y)
        iy2 == Ceil(fraction_index_y)
        iz1 == Floor(fraction_index_z)
        iz2 == Ceil(fraction_index_z)
        vx == RMul(One, fraction_x)
        vxy == RMul(vx, fraction_y)
        vxiy == RMul(vx, ifraction_y)
        vix == RMul(One, ifraction_x)
        vixy == RMul(vix, fraction_y)
        vixiy == RMul(vix, ifraction_y)
    IN  [X |-> <<ix1, ix1, ix1, ix1, ix2, ix2, ix2, ix2>>,
         Y |-> <<iy1, iy1, iy2, iy2, iy1, iy1, iy2, iy2>>,
         Z |-> <<iz1, iz2, iz1, iz2, iz1, iz2, iz1, iz2>>,
         WEIGHT |-> <<RMul(vxy, fraction_z), RMul(vxy, ifraction_z),
                      RMul(vxiy, fraction_z), RMul(vxiy, ifraction_z),
                      RMul(vixy, fraction_z), RMul(vixy, ifraction_z),
                      RMul(vixiy, fraction_z), RMul(vixiy, ifraction_z)>>]

-----------------------------------------------------------------------------
(* Footprint box weights *)

\* One axis.  length is x2 - x1 + 1; with length = 0 the arrays are empty and
\* the stores W[0] and W[-1] address no element (ok = FALSE).
get_index_vals2_sup(fraction_index_x_min, fraction_index_x_max) ==
    LET ifraction_x_min == Mod1(fraction_index_x_min)
        ifraction_x_max == Mod1(fraction_index_x_max)
        fraction_x_min == RSub(One, ifraction_x_min)
        fraction_x_max == RSub(One, ifraction_x_max)
        lowfloor == RLt(ifraction_x_min, Half)
        x1 == IF lowfloor THEN Floor(fraction_index_x_min)
              ELSE Ceil(fraction_index_x_min)
        fraction_x1 == IF lowfloor THEN RSub(Half, ifraction_x_min)
                       ELSE RAdd(Half, fraction_x_min)
        highfloor == RLe(Half, fraction_x_max)
        x2 == IF highfloor THEN Floor(fraction_index_x_max)
              ELSE Ceil(fraction_index_x_max)
        fraction_x2 == IF highfloor THEN RAdd(Half, ifraction_x_max)
                       ELSE RSub(Half, fraction_x_max)
        length == x2 - x1 + 1
        W0 == Array([k \in 1..length |->
                       IF k = length THEN fraction_x2
                       ELSE IF k = 1 THEN fraction_x1 ELSE One])
        sum == SumSeq(W0)
    IN  IF length < 1
        THEN [ok |-> FALSE, X |-> <<>>, W |-> <<>>]
        ELSE [ok |-> TRUE,
              X |-> Array([k \in 1..length |-> x1 + k - 1]),
              W |-> Array([k \in 1..length |-> RDiv(W0[k], sum)])]

\* np.repeat / np.tile: the product of the three axes' runs, x outermost
BoxProduct(X_, Y_, Z_) ==
    LET lx == Len(X_.X)
        ly == Len(Y_.X)
        lz == Len(Z_.X)
        num_cells == lx * ly * lz
        xi(k) == ((k - 1) \div (ly * lz)) + 1
        yi(k) == (((k - 1) \div lz) % ly) + 1
        zi(k) == ((k - 1) % lz) + 1
    IN  [ok |-> X_.ok /\ Y_.ok /\ Z_.ok,
         X |-> Array([k \in 1..num_cells |-> X_.X[xi(k)]]),
         Y |-> Array([k \in 1..num_cells |-> Y_.X[yi(k)]]),
         Z |-> Array([k \in 1..num_cells |-> Z_.X[zi(k)]]),
         WEIGHT |-> Array([k \in 1..num_cells |->
                       RMul(RMul(X_.W[xi(k)], Y_.W[yi(k)]), Z_.W[zi(k)])])]

get_index_vals2(fraction_index_x_min, fraction_index_x_max, fraction_index_y_min, fraction_index_y_max, fraction_index_z_min, fraction_index_z_max) ==
    BoxProduct(get_index_vals2_sup(fraction_index_x_min, fraction_index_x_max),
               get_index_vals2_sup(fraction_index_y_min, fraction_index_y_max),
               get_index_vals2_sup(fraction_index_z_min, fraction_index_z_max))

-----------------------------------------------------------------------------
(* Inverse-distance neighbourhood *)

\* np.arange(lo, hi): lo, lo+1, ..., hi-1
arange(lo, hi) == Array([k \in 1..(hi - lo) |-> lo + k - 1])

RECURSIVE SelectIdx(_, _, _)
\* the indices k..n for which keep[k], in increasing order
SelectIdx(keep, k, n) ==
    IF k > n THEN <<>>
    ELSE IF keep[k] THEN <<k>> \o SelectIdx(keep, k + 1, n)
    ELSE SelectIdx(keep, k + 1, n)

\* the cells the nested loops over ix, iy, iz visit: x outermost, z innermost
MeshCells(RX, RY, RZ) ==
    LET ly == Len(RY)
        lz == Len(RZ)
    IN  Array([k \in 1..(Len(RX) * ly * lz) |->
                 <<RX[((k - 1) \div (ly * lz)) + 1],
                   RY[(((k - 1) \div lz) % ly) + 1],
                   RZ[((k - 1) % lz) + 1]>>])

Square(a) == RMul(a, a)

\* dx*dx + dy*dy + dz*dz for every cell of the box
Distances2(cells, norm_x, xres, norm_y, yres, norm_z, zres) ==
    Array([k \in 1..Len(cells) |->
             RAdd(RAdd(Square(RSub(norm_x, RMul(Num(cells[k][1]), xres))),
                       Square(RSub(norm_y, RMul(Num(cells[k][2]), yres)))),
                  Square(RSub(norm_z, RMul(Num(cells[k][3]), zres))))])

\* dr = sqrt(dr2); the cells with dr <= R, weighted 1 / max(dr, min_dr).
\* sqrt is monotone, so dr is compared through its square.
WithinRadius(cells, dr2, R, min_dr) ==
    LET keep == Array([k \in 1..Len(cells) |-> RLe(dr2[k], Square(R))])
        sel == SelectIdx(keep, 1, Len(cells))
    IN  [X |-> Array([j \in 1..Len(sel) |-> cells[sel[j]][1]]),
         Y |-> Array([j \in 1..Len(sel) |-> cells[sel[j]][2]]),
         Z |-> Array([j \in 1..Len(sel) |-> cells[sel[j]][3]]),
         WEIGHT |-> Array([j \in 1..Len(sel) |->
                       IF RLt(dr2[sel[j]], Square(min_dr))
                       THEN RDiv(One, min_dr)
                       ELSE RDiv(One, Sqrt(dr2[sel[j]]))])]

InvDistCells(cells, norm_x, xres, norm_y, yres, norm_z, zres, R) ==
    WithinRadius(cells,
                 Distances2(cells, norm_x, xres, norm_y, yres, norm_z, zres),
                 R, RDiv(R, Num(10)))

get_index_vals_inv_dist(x, xmin, xres, y, ymin, yres, z, zmin, zres, R) ==
    InvDistCells(
        MeshCells(arange(round_int(RDiv(RSub(RSub(x, xmin), R), xres)),
                         round_int(RDiv(RAdd(RSub(x, xmin), R), xres))),
                  arange(round_int(RDiv(RSub(RSub(y, ymin), R), yres)),
                         round_int(RDiv(RAdd(RSub(y, ymin), R), yres))),
                  arange(round_int(RDiv(RSub(RSub(z, zmin), R), zres)),
                         round_int(RDiv(RAdd(RSub(z, zmin), R), zres)))),
        RSub(x, xmin), xres, RSub(y, ymin), yres, RSub(z, zmin), zres, R)

-----------------------------------------------------------------------------
(* Splatting accumulators: grid geometry and input domains *)

xmin == Zero
ymin == Zero
zmin == Zero
xres == One
yres == One
zres == One
nx == NX
ny == NY
nz == NZ

Cells == (0..(nx - 1)) \X (0..(ny - 1)) \X (0..(nz - 1))
ZeroGrid == [c \in Cells |-> Zero]

\* sample coordinates, values and auxiliary values the caller may pass
XVals == {Num(-nx), Rat(-1, 2), One, Rat(2 * nx - 1, 2)}
YVals == {Zero}
ZVals == {Zero}
Values == {Num(-1), One, Num(Vmax)}
Extents == {Zero, One}
Radii == {One}
\* what a read past the end of sv may yield when the compiled code does no
\* bounds checking: any number
StrayValues == Values \cup {Num(Vmax + 1)}

NoSample == [x |-> Zero, y |-> Zero, z |-> Zero, v |-> Zero]
NoLast == [kind |-> "none", i |-> 0, s |-> NoSample, log |-> <<>>]
NoCall == [fn |-> "none", skip_invalid |-> TRUE, extent |-> FALSE,
           lx |-> 0, ly |-> 0, lz |-> 0, lv |-> 0, laux |-> 0]

-----------------------------------------------------------------------------
(* Splatting accumulators: the shared loop body *)

\* a bounds policy whose skip path lacks the tests  ix < 0, iy < 0, iz < 0
BoundsPolicy_nolower(ix, iy, iz, skip_invalid) ==
    IF ~skip_invalid
    THEN [drop |-> FALSE,
          ix |-> IF ix < 0 THEN 0 ELSE IF ix >= nx THEN nx - 1 ELSE ix,
          iy |-> IF iy < 0 THEN 0 ELSE IF iy >= ny THEN ny - 1 ELSE iy,
          iz |-> IF iz < 0 THEN 0 ELSE IF iz >= nz THEN nz - 1 ELSE iz]
    ELSE [drop |-> Abs(ix) >= nx \/ Abs(iy) >= ny \/ Abs(iz) >= nz,
          ix |-> ix, iy |-> iy, iz |-> iz]

\* a bounds policy whose clamp path tests abs(index) >= count on the index
\* as it came, before the lower clamp
BoundsPolicy_absfirst(ix, iy, iz, skip_invalid) ==
    IF ~skip_invalid
    THEN [drop |-> FALSE,
          ix |-> IF Abs(ix) >= nx THEN nx - 1 ELSE IF ix < 0 THEN 0 ELSE ix,
          iy |-> IF Abs(iy) >= ny THEN ny - 1 ELSE IF iy < 0 THEN 0 ELSE iy,
          iz |-> IF Abs(iz) >= nz THEN nz - 1 ELSE IF iz < 0 THEN 0 ELSE iz]
    ELSE [drop |-> ix < 0 \/ iy < 0 \/ iz < 0
                   \/ Abs(ix) >= nx \/ Abs(iy) >= ny \/ Abs(iz) >= nz,
          ix |-> ix, iy |-> iy, iz |-> iz]

\* the bounds policy: [drop, ix, iy, iz]
BoundsPolicy(ix, iy, iz, skip_invalid) ==
    IF ~skip_invalid
    THEN LET ix1 == IF ix < 0 THEN 0 ELSE ix
             iy1 == IF iy < 0 THEN 0 ELSE iy
             iz1 == IF iz < 0 THEN 0 ELSE iz
             ix2 == IF Abs(ix1) >= nx THEN nx - 1 ELSE ix1
             iy2 == IF Abs(iy1) >= ny THEN ny - 1 ELSE iy1
             iz2 == IF Abs(iz1) >= nz THEN nz - 1 ELSE iz1
         IN  [drop |-> FALSE, ix |-> ix2, iy |-> iy2, iz |-> iz2]
    ELSE [drop |-> ix < 0 \/ iy < 0 \/ iz < 0
                   \/ Abs(ix) >= nx \/ Abs(iy) >= ny \/ Abs(iz) >= nz,
          ix |-> ix, iy |-> iy, iz |-> iz]

\* grid[ix][iy][iz]: a negative index counts from the end of its axis
GridCell(ix, iy, iz) ==
    <<IF ix < 0 THEN ix + nx ELSE ix,
      IF iy < 0 THEN iy + ny ELSE iy,
      IF iz < 0 THEN iz + nz ELSE iz>>

\* a deposit without the test  v >= 0
Deposit_nosentinel(g, ix, iy, iz, v, w) ==
    [num |-> [g.num EXCEPT ![GridCell(ix, iy, iz)] = RAdd(@, w)],
     sum |-> [g.sum EXCEPT ![GridCell(ix, iy, iz)] = RAdd(@, RMul(v, w))]]

\* if v >= 0: imagesum[ix][iy][iz] += v * w ; imagenum[ix][iy][iz] += w
Deposit(g, ix, iy, iz, v, w) ==
    IF RLe(Zero, v)
    THEN [num |-> [g.num EXCEPT ![GridCell(ix, iy, iz)] = RAdd(@, w)],
          sum |-> [g.sum EXCEPT ![GridCell(ix, iy, iz)] = RAdd(@, RMul(v, w))]]
    ELSE g

\* one iteration of the contribution loop of get_sampled_image2 and
\* get_sampled_image_inv_dist
ContribEffect(g, ix, iy, iz, w, v, skip_invalid) ==
    LET b == BoundsPolicy(ix, iy, iz, skip_invalid)
    IN  IF w = Zero \/ b.drop THEN g
        ELSE Deposit(g, b.ix, b.iy, b.iz, v, w)

\* the loop body of get_sampled_image after the index computation
NearestEffect(g, ix, iy, iz, v, skip_invalid) ==
    LET b == BoundsPolicy(ix, iy, iz, skip_invalid)
    IN  IF b.drop THEN g
        ELSE Deposit(g, b.ix, b.iy, b.iz, v, One)

\* bookkeeping: the cells of either grid that differ between g and h
Changed(g, h) == {c \in Cells : g.num[c] # h.num[c] \/ g.sum[c] # h.sum[c]}

RECURSIVE ApplyContribs(_, _, _, _, _, _)
\* the whole contribution loop, from contribution k (1-based) on: the grids
\* it leaves and, as bookkeeping, per contribution its index triple, its
\* weight and the cells that iteration changed
ApplyContribs(g, log, G, k, v, skip_invalid) ==
    IF k > Len(G.X) THEN [g |-> g, log |-> log]
    ELSE LET h == ContribEffect(g, G.X[k], G.Y[k], G.Z[k], G.WEIGHT[k], v,
                                skip_invalid)
         IN  ApplyContribs(h,
                 Append(log, [raw |-> <<G.X[k], G.Y[k], G.Z[k]>>,
                              w |-> G.WEIGHT[k], changed |-> Changed(g, h)]),
                 G, k + 1, v, skip_invalid)

Grids == [num |-> imagenum, sum |-> imagesum]

-----------------------------------------------------------------------------
(* Splatting accumulators: the calls *)

Idle == pc = "idle"

\* lengths of sx, sy, sz, sv the caller may pass: all equal, or sy or sv one
\* shorter, or sx one shorter than the others
Shapes(n) ==
    {<<n, n, n, n>>, <<n, n + 1, n + 1, n + 1>>}
    \cup (IF n > 0 THEN {<<n, n - 1, n, n>>, <<n, n, n, n - 1>>} ELSE {})

WellFormed(c) == c.lx = c.ly /\ c.ly = c.lz /\ c.lz = c.lv

\* the numbers of samples a call may still be given
SampleCounts == 0..(MaxSamples - hist.nsamples)

StartCall(c) ==
    /\ Idle
    /\ hist.ncalls < MaxCalls
    /\ call' = c
    /\ i' = 0
    /\ pc' = "loop"
    /\ last' = NoLast
    /\ hist' = [hist EXCEPT !.ncalls = @ + 1,
                            !.start = Grids,
                            !.applied = 0,
                            !.err = "none",
                            !.wellformed = @ /\ WellFormed(c)]
    /\ UNCHANGED <<tieRule, fin, fout, imagenum, imagesum>>

CallNearest ==
    \E n \in SampleCounts, skip \in BOOLEAN :
      \E s \in Shapes(n) :
        StartCall([fn |-> "get_sampled_image", skip_invalid |-> skip,
                   extent |-> FALSE, lx |-> s[1], ly |-> s[2], lz |-> s[3],
                   lv |-> s[4], laux |-> 0])

CallImage2 ==
    \E n \in SampleCounts, skip \in BOOLEAN, ext \in BOOLEAN :
      \E s \in Shapes(n), k \in 0..n :
        /\ ~ext => k = 0
        /\ StartCall([fn |-> "get_sampled_image2", skip_invalid |-> skip,
                      extent |-> ext, lx |-> s[1], ly |-> s[2], lz |-> s[3],
                      lv |-> s[4], laux |-> k])

CallInvDist ==
    \E n \in SampleCounts, skip \in BOOLEAN :
      \E s \in Shapes(n), k \in 0..n :
        StartCall([fn |-> "get_sampled_image_inv_dist", skip_invalid |-> skip,
                   extent |-> FALSE, lx |-> s[1], ly |-> s[2], lz |-> s[3],
                   lv |-> s[4], laux |-> k])

\* x = sx[i]; y = sy[i]; z = sz[i]; v = sv[i].  An index past the end of sy, sz
\* or sv reads a stray number (no bounds checking) unless ReadPastEnd raises.
Samples ==
    [x : XVals, y : YVals, z : ZVals,
     v : IF i < call.lv THEN Values ELSE StrayValues]

\* for i in range(len(sx)): exhausted
LoopExit ==
    /\ pc = "loop"
    /\ i >= call.lx
    /\ pc' = "returned"
    /\ UNCHANGED <<tieRule, fin, fout, imagenum, imagesum, call, i, last, hist>>

\* sy[i], sz[i] or sv[i] with i past the end: IndexError (bounds checked)
ReadPastEnd ==
    /\ pc = "loop"
    /\ i < call.lx
    /\ i >= call.ly \/ i >= call.lz \/ i >= call.lv
    /\ pc' = "raised"
    /\ hist' = [hist EXCEPT !.err = "IndexError"]
    /\ UNCHANGED <<tieRule, fin, fout, imagenum, imagesum, call, i, last>>

\* the end of one iteration of the sample loop
SampleDone(kind, s, g, log) ==
    /\ imagenum' = g.num
    /\ imagesum' = g.sum
    /\ last' = [kind |-> kind, i |-> i, s |-> s, log |-> log]
    /\ i' = i + 1
    /\ hist' = [hist EXCEPT !.applied = @ + 1, !.nsamples = @ + 1]
    /\ UNCHANGED <<tieRule, fin, fout, pc, call>>

\* one iteration of get_sampled_image's loop
NearestSample ==
    /\ pc = "loop"
    /\ call.fn = "get_sampled_image"
    /\ i < call.lx
    /\ \E s \in Samples :
         LET ix == get_index(s.x, xmin, xres)
             iy == get_index(s.y, ymin, yres)
             iz == get_index(s.z, zmin, zres)
             g == NearestEffect(Grids, ix, iy, iz, s.v, call.skip_invalid)
         IN  SampleDone("nearest", s, g,
                        <<[raw |-> <<ix, iy, iz>>, w |-> One,
                           changed |-> Changed(Grids, g)]>>)

\* an off-by-one length test:  i > len(extent)
AuxTooShort_late(k, laux) == k > laux

\* if i >= len(extent) / len(radius): raise RuntimeError
AuxTooShort(k, laux) == k >= laux

AuxError ==
    /\ pc = "loop"
    /\ \/ call.fn = "get_sampled_image2" /\ call.extent
       \/ call.fn = "get_sampled_image_inv_dist"
    /\ i < call.lx
    /\ AuxTooShort(i, call.laux)
    /\ pc' = "raised"
    /\ hist' = [hist EXCEPT !.err = "RuntimeError"]
    /\ UNCHANGED <<tieRule, fin, fout, imagenum, imagesum, call, i, last>>

\* the contribution loop over IX, IY, IZ, WEIGHT
SplatSample(kind, s, G) ==
    LET r == ApplyContribs(Grids, <<>>, G, 1, s.v, call.skip_invalid)
    IN  SampleDone(kind, s, r.g, r.log)

\* get_sampled_image2, extent is None: trilinear weights
PointSample ==
    /\ pc = "loop"
    /\ call.fn = "get_sampled_image2"
    /\ ~call.extent
    /\ i < call.lx
    /\ \E s \in Samples :
         SplatSample("point", s,
                     get_index_vals(get_index_fraction(s.x, xmin, xres),
                                    get_index_fraction(s.y, ymin, yres),
                                    get_index_fraction(s.z, zmin, zres)))

BoxGen(s, e) ==
    LET length_2 == RDiv(e, Num(2))
    IN  get_index_vals2(get_index_fraction(RSub(s.x, length_2), xmin, xres),
                        get_index_fraction(RAdd(s.x, length_2), xmin, xres),
                        get_index_fraction(RSub(s.y, length_2), ymin, yres),
                        get_index_fraction(RAdd(s.y, length_2), ymin, yres),
                        get_index_fraction(RSub(s.z, length_2), zmin, zres),
                        get_index_fraction(RAdd(s.z, length_2), zmin, zres))

\* get_sampled_image2 with an extent: footprint box weights.  When an axis
\* has no cell (ok = FALSE), the stores into the empty weight array go
\* unchecked and the sample contributes nothing, unless BoxError raises.
BoxSample ==
    /\ pc = "loop"
    /\ call.fn = "get_sampled_image2"
    /\ call.extent
    /\ i < call.lx
    /\ ~AuxTooShort(i, call.laux)
    /\ \E s \in Samples, e \in Extents :
         SplatSample("box", s, BoxGen(s, e))

\* the store W[0] = fraction_x1 into an empty array: IndexError (bounds checked)
BoxError ==
    /\ pc = "loop"
    /\ call.fn = "get_sampled_image2"
    /\ call.extent
    /\ i < call.lx
    /\ ~AuxTooShort(i, call.laux)
    /\ \E s \in Samples, e \in Extents : ~BoxGen(s, e).ok
    /\ pc' = "raised"
    /\ hist' = [hist EXCEPT !.err = "IndexError"]
    /\ UNCHANGED <<tieRule, fin, fout, imagenum, imagesum, call, i, last>>

InvDistSample ==
    /\ pc = "loop"
    /\ call.fn = "get_sampled_image_inv_dist"
    /\ i < call.lx
    /\ ~AuxTooShort(i, call.laux)
    /\ \E s \in Samples, R \in Radii :
         SplatSample("inv_dist", s,
                     get_index_vals_inv_dist(s.x, xmin, xres, s.y, ymin, yres,
                                             s.z, zmin, zres, R))

\* the call has returned or raised: the caller has the grids again
BackToCaller ==
    /\ pc \in {"returned", "raised"}
    /\ pc' = "idle"
    /\ call' = NoCall
    /\ i' = 0
    /\ last' = NoLast
    /\ hist' = [hist EXCEPT !.start = Grids, !.applied = 0, !.err = "none"]
    /\ UNCHANGED <<tieRule, fin, fout, imagenum, imagesum>>

NoArgs == [fn |-> "none"]
NoResult == [status |-> "none"]
NoFunctionCall == fin = NoArgs /\ fout = NoResult

Init ==
    /\ tieRule \in TieRules
    /\ NoFunctionCall
    /\ imagenum = ZeroGrid
    /\ imagesum = ZeroGrid
    /\ pc = "idle"
    /\ call = NoCall
    /\ i = 0
    /\ last = NoLast
    /\ hist = [ncalls |-> 0, nsamples |-> 0, applied |-> 0,
               start |-> [num |-> ZeroGrid, sum |-> ZeroGrid],
               err |-> "none", wellformed |-> TRUE]

Next ==
    \/ CallNearest
    \/ CallImage2
    \/ CallInvDist
    \/ LoopExit
    \/ ReadPastEnd
    \/ NearestSample
    \/ AuxError
    \/ PointSample
    \/ BoxSample
    \/ BoxError
    \/ InvDistSample
    \/ BackToCaller

Spec == Init /\ [][Next]_vars

-----------------------------------------------------------------------------
(* The generators and the scanner called on their own: fin holds the       *)
(* arguments of one call, fout what the call gave back.                     *)

\* no splat call is running and the grids are untouched
SplatIdle ==
    /\ imagenum = ZeroGrid
    /\ imagesum = ZeroGrid
    /\ pc = "idle"
    /\ call = NoCall
    /\ i = 0
    /\ last = NoLast
    /\ hist = [ncalls |-> 0, nsamples |-> 0, applied |-> 0,
               start |-> [num |-> ZeroGrid, sum |-> ZeroGrid],
               err |-> "none", wellformed |-> TRUE]

SplatVars == <<tieRule, imagenum, imagesum, pc, call, i, last, hist>>

\* the function returns or raises: fout is set once
Result(r) ==
    /\ fout = NoResult
    /\ fout' = r
    /\ UNCHANGED fin
    /\ UNCHANGED SplatVars

SeqsUpTo(S, n) == UNION {[1..k -> S] : k \in 0..n}

\* fractional indices: the multiples of 1/IdxDen in [-r, r]
IdxVals(r) == {Rat(k, IdxDen) : k \in (-r * IdxDen)..(r * IdxDen)}

(* get_minmax *)

MinMaxVals == {NaN, One, Num(2)}

InitMinMax ==
    /\ tieRule = "even"
    /\ fin \in [fn : {"get_minmax"},
                sx : SeqsUpTo(MinMaxVals, MaxLen),
                sy : SeqsUpTo({Zero, NaN}, MaxLen),
                sz : SeqsUpTo({Zero}, MaxLen)]
    /\ fout = NoResult
    /\ SplatIdle

CallMinMax ==
    /\ fin.fn = "get_minmax"
    /\ Result(get_minmax(fin.sx, fin.sy, fin.sz))

SpecMinMax == InitMinMax /\ [][CallMinMax]_vars

(* get_index_vals *)

InitTrilinear ==
    /\ tieRule = "even"
    /\ fin \in [fn : {"get_index_vals"},
                fx : IdxVals(IdxRange), fy : IdxVals(IdxRange),
                fz : IdxVals(IdxRange)]
    /\ fout = NoResult
    /\ SplatIdle

CallTrilinear ==
    /\ fin.fn = "get_index_vals"
    /\ \E G \in {get_index_vals(fin.fx, fin.fy, fin.fz)} :
         Result([status |-> "ok", X |-> G.X, Y |-> G.Y, Z |-> G.Z,
                 WEIGHT |-> G.WEIGHT])

SpecTrilinear == InitTrilinear /\ [][CallTrilinear]_vars

(* get_index_vals2_sup *)

InitBox1D ==
    /\ tieRule = "even"
    /\ fin \in {a \in [fn : {"get_index_vals2_sup"},
                       lo : IdxVals(IdxRange + 1), hi : IdxVals(IdxRange + 1)] :
                  RLe(a.lo, a.hi)}
    /\ fout = NoResult
    /\ SplatIdle

\* returns X, W; for length 0 the stores W[0], W[-1] go unchecked and the
\* arrays come back empty
CallBox1D ==
    /\ fin.fn = "get_index_vals2_sup"
    /\ \E G \in {get_index_vals2_sup(fin.lo, fin.hi)} :
         Result([status |-> "ok", X |-> G.X, W |-> G.W])

\* for length 0 with bounds checking: W[0] raises IndexError
Box1DError ==
    /\ fin.fn = "get_index_vals2_sup"
    /\ ~get_index_vals2_sup(fin.lo, fin.hi).ok
    /\ Result([status |-> "IndexError", X |-> <<>>, W |-> <<>>])

NextBox1D == CallBox1D \/ Box1DError

SpecBox1D == InitBox1D /\ [][NextBox1D]_vars

(* get_index_vals_inv_dist *)

PureRadii == {Half, One, Rat(3, 2)}

InitInvDist ==
    /\ tieRule \in TieRules
    /\ fin \in [fn : {"get_index_vals_inv_dist"},
                x : IdxVals(IdxRange), y : {Zero, Half}, z : {Zero},
                R : PureRadii]
    /\ fout = NoResult
    /\ SplatIdle

CallInvDistGen ==
    /\ fin.fn = "get_index_vals_inv_dist"
    /\ \E G \in {get_index_vals_inv_dist(fin.x, xmin, xres, fin.y, ymin, yres,
                                          fin.z, zmin, zres, fin.R)} :
         Result([status |-> "ok", X |-> G.X, Y |-> G.Y, Z |-> G.Z,
                 WEIGHT |-> G.WEIGHT])

SpecInvDist == InitInvDist /\ [][CallInvDistGen]_vars

-----------------------------------------------------------------------------
(* Properties of the generators and the scanner *)

\* the number of entries of a generator's output
Entries(r) == 1..Len(r.X)

\* the index triple a (floor|ceil) choice per axis stands for
Corner(pick, fx, fy, fz) ==
    <<IF pick[1] = 0 THEN Floor(fx) ELSE Ceil(fx),
      IF pick[2] = 0 THEN Floor(fy) ELSE Ceil(fy),
      IF pick[3] = 0 THEN Floor(fz) ELSE Ceil(fz)>>

\* C7: for any three fractional indices, positive, negative or integral,
\* get_index_vals returns exactly 8 entries, one per (floor|ceil) combination
\* of the three axes (an index triple that k combinations share is returned
\* k times: duplicates are kept), every weight lies in [0, 1] and the eight
\* weights sum to 1.
C7_TrilinearEightWeights ==
    (fin.fn = "get_index_vals" /\ fout.status = "ok") =>
        /\ Len(fout.X) = 8 /\ Len(fout.Y) = 8 /\ Len(fout.Z) = 8
        /\ Len(fout.WEIGHT) = 8
        /\ \A j \in 1..8 : RLe(Zero, fout.WEIGHT[j]) /\ RLe(fout.WEIGHT[j], One)
        /\ SumSeq(fout.WEIGHT) = One
        /\ \A pick \in [1..3 -> {0, 1}] :
             LET t == Corner(pick, fin.fx, fin.fy, fin.fz)
             IN  Cardinality({j \in 1..8 :
                                <<fout.X[j], fout.Y[j], fout.Z[j]>> = t})
                 = Cardinality({q \in [1..3 -> {0, 1}] :
                                  Corner(q, fin.fx, fin.fy, fin.fz) = t})

\* a call with a negative non-integral x index and an integral y index has
\* returned its 8 entries, the duplicated ones among them
C7_NegativeAndIntegral ==
    /\ fin.fn = "get_index_vals"
    /\ fout.status = "ok"
    /\ RLt(fin.fx, Zero)
    /\ Mod1(fin.fx) # Zero
    /\ Mod1(fin.fy) = Zero
    /\ Len(fout.X) = 8
    /\ \E j, k \in 1..8 :
         /\ j # k
         /\ <<fout.X[j], fout.Y[j], fout.Z[j]>> = <<fout.X[k], fout.Y[k], fout.Z[k]>>

\* C6: for any interval [lo, hi] with lo <= hi, zero-width and half-integer
\* edges included, get_index_vals2_sup returns a non-empty run of consecutive
\* indices and as many weights, which sum to 1.
C6_FootprintRunNonEmpty ==
    (fin.fn = "get_index_vals2_sup" /\ fout.status # "none") =>
        /\ fout.status = "ok"
        /\ Len(fout.X) >= 1
        /\ \A j \in 1..(Len(fout.X) - 1) : fout.X[j + 1] = fout.X[j] + 1
        /\ Len(fout.W) = Len(fout.X)
        /\ SumSeq(fout.W) = One

\* lo <= c <= hi as floats
Contains(lo, hi, c) == ~IsNaN(lo) /\ ~IsNaN(hi) /\ RLe(lo, c) /\ RLe(c, hi)

\* C8: for non-empty sequences of equal length get_minmax returns, per axis,
\* bounds that contain every coordinate of that axis that is a number, also
\* when other entries are not-a-number; for empty sequences all six outputs
\* are not-a-number; for sequences of differing length it fails.
C8_MinMaxContainsAll ==
    (fin.fn = "get_minmax" /\ fout.status # "none") =>
        IF ~(Len(fin.sx) = Len(fin.sy) /\ Len(fin.sy) = Len(fin.sz))
        THEN fout.status = "AssertionError"
        ELSE /\ fout.status = "ok"
             /\ Len(fin.sx) = 0 =>
                  /\ IsNaN(fout.out.minx) /\ IsNaN(fout.out.maxx)
                  /\ IsNaN(fout.out.miny) /\ IsNaN(fout.out.maxy)
                  /\ IsNaN(fout.out.minz) /\ IsNaN(fout.out.maxz)
             /\ \A k \in 1..Len(fin.sx) :
                  /\ ~IsNaN(fin.sx[k]) =>
                       Contains(fout.out.minx, fout.out.maxx, fin.sx[k])
                  /\ ~IsNaN(fin.sy[k]) =>
                       Contains(fout.out.miny, fout.out.maxy, fin.sy[k])
                  /\ ~IsNaN(fin.sz[k]) =>
                       Contains(fout.out.minz, fout.out.maxz, fin.sz[k])

\* the squared distance of the sample of fin from the centre of cell c
CentreDist2(c) ==
    RAdd(RAdd(Square(RSub(RSub(fin.x, xmin), RMul(Num(c[1]), xres))),
              Square(RSub(RSub(fin.y, ymin), RMul(Num(c[2]), yres)))),
         Square(RSub(RSub(fin.z, zmin), RMul(Num(c[3]), zres))))

\* the cells around the samples of SpecInvDist
NearCells ==
    ((-(IdxRange + 2))..(IdxRange + 2)) \X (-2..3) \X (-2..2)

\* C5: get_index_vals_inv_dist returns an entry for every cell whose centre
\* lies within distance R of the sample, and every entry it returns is such
\* a cell, with weight 1 / max(distance, R/10).
C5_InvDistEveryCellWithinR ==
    (fin.fn = "get_index_vals_inv_dist" /\ fout.status = "ok") =>
        /\ \A c \in NearCells :
             RLe(CentreDist2(c), Square(fin.R)) =>
                \E j \in Entries(fout) : <<fout.X[j], fout.Y[j], fout.Z[j]>> = c
        /\ \A j \in Entries(fout) :
             LET d2 == CentreDist2(<<fout.X[j], fout.Y[j], fout.Z[j]>>)
                 min_dr == RDiv(fin.R, Num(10))
             IN  /\ RLe(d2, Square(fin.R))
                 /\ fout.WEIGHT[j] =
                      IF RLt(d2, Square(min_dr)) THEN RDiv(One, min_dr)
                      ELSE RDiv(One, Sqrt(d2))

-----------------------------------------------------------------------------
(* Properties of the splatting accumulators *)

InGrid(raw) == raw[1] \in 0..(nx - 1) /\ raw[2] \in 0..(ny - 1)
               /\ raw[3] \in 0..(nz - 1)

\* an axis index brought into [0, n-1]
ClampAxis(k, n) == IF k < 0 THEN 0 ELSE IF k >= n THEN n - 1 ELSE k

\* the contributions of the sample last processed
Contribs == 1..Len(last.log)

\* the contribution deposits something: its weight is not 0 and the sample's
\* value is not negative
Deposits(e) == e.w # Zero /\ RLe(Zero, last.s.v)

\* the running call takes an extent or radius per sample
AuxNeeded ==
    \/ call.fn = "get_sampled_image2" /\ call.extent
    \/ call.fn = "get_sampled_image_inv_dist"

\* C1: in all three variants, for every contribution of every sample: with
\* skip_invalid a contribution with any axis index < 0 or >= the axis' count
\* changes no cell; without skip_invalid each axis index below 0 becomes 0
\* and each index >= count becomes count-1, so the one cell a depositing
\* contribution changes is that clamped cell, inside the grid.
C1_BoundsPolicyDropsOrClamps ==
    \A j \in Contribs :
        LET e == last.log[j]
        IN  /\ (call.skip_invalid /\ ~InGrid(e.raw)) => e.changed = {}
            /\ (~call.skip_invalid /\ Deposits(e)) =>
                 /\ e.changed = {<<ClampAxis(e.raw[1], nx),
                                   ClampAxis(e.raw[2], ny),
                                   ClampAxis(e.raw[3], nz)>>}
                 /\ e.changed \subseteq Cells

\* without skip_invalid, a contribution whose x index is >= nx has been
\* deposited into the last x cell
C1_ClampedIntoLastCell ==
    /\ last.kind # "none"
    /\ ~call.skip_invalid
    /\ \E j \in Contribs :
         /\ last.log[j].raw[1] >= nx
         /\ \E c \in last.log[j].changed : c[1] = nx - 1

\* C2: a splat call given x, y, z, v sequences of unequal lengths ends in a
\* fatal error, with both grids as they were before the call.
C2_LengthMismatchFailsFirst ==
    (pc \in {"returned", "raised"} /\ ~WellFormed(call)) =>
        /\ pc = "raised"
        /\ Grids = hist.start

\* C3: a call whose extent or radius array has k entries raises its
\* RuntimeError at sample index i = k, with samples 0..k-1 applied in full;
\* no sample with index >= k is processed, and raising rolls nothing back.
C3_AuxShortRaisesAtK ==
    /\ [](pc = "raised" /\ hist.err = "RuntimeError" =>
            /\ AuxNeeded
            /\ call.laux < call.lx
            /\ i = call.laux
            /\ hist.applied = call.laux)
    /\ [][(pc = "loop" /\ AuxNeeded /\ i' = i + 1) => i < call.laux]_vars
    /\ [][pc' = "raised" => imagenum' = imagenum /\ imagesum' = imagesum]_vars

\* a call with a non-empty but too short extent or radius array has raised,
\* and the grids keep what the earlier samples deposited
C3_RaisedAfterEarlierSamples ==
    /\ pc = "raised"
    /\ hist.err = "RuntimeError"
    /\ call.laux >= 1
    /\ i = call.laux
    /\ Grids # hist.start

\* C4: a nearest-cell sample with v >= 0 whose rounded index is inside the
\* grid adds exactly 1 to the weight-sum and exactly v to the value-sum at
\* that one cell and changes no other cell; in every variant a sample with
\* v < 0 changes neither grid.
C4_NearestAddsOneAndV ==
    [][(pc = "loop" /\ i' = i + 1) =>
         LET s == last'.s
             c == <<get_index(s.x, xmin, xres), get_index(s.y, ymin, yres),
                    get_index(s.z, zmin, zres)>>
         IN  /\ (call.fn = "get_sampled_image" /\ RLe(Zero, s.v) /\ InGrid(c)) =>
                  /\ imagenum' = [imagenum EXCEPT ![c] = RAdd(@, One)]
                  /\ imagesum' = [imagesum EXCEPT ![c] = RAdd(@, s.v)]
             /\ RLt(s.v, Zero) =>
                  imagenum' = imagenum /\ imagesum' = imagesum]_vars

\* a nearest-cell sample with v >= 0 has been deposited into the cell of its
\* rounded index
C4_NearestDeposited ==
    /\ last.kind = "nearest"
    /\ RLe(Zero, last.s.v)
    /\ InGrid(last.log[1].raw)
    /\ last.log[1].changed = {last.log[1].raw}

\* C9 as stated: without skip_invalid, an axis index <= -count is clamped to
\* count-1.
C9_VeryNegativeClampedToMax ==
    \A j \in Contribs :
        LET e == last.log[j]
        IN  (~call.skip_invalid /\ Deposits(e)) =>
              /\ e.changed # {}
              /\ \A c \in e.changed :
                   /\ e.raw[1] <= -nx => c[1] = nx - 1
                   /\ e.raw[2] <= -ny => c[2] = ny - 1
                   /\ e.raw[3] <= -nz => c[3] = nz - 1

\* C9: without skip_invalid, an axis index <= -count is clamped to 0, like
\* every other negative index: the lower clamp runs first, so the test
\* abs(index) >= count only ever sees an index >= 0.
C9_VeryNegativeClampedToZero ==
    \A j \in Contribs :
        LET e == last.log[j]
        IN  (~call.skip_invalid /\ Deposits(e)) =>
              /\ e.changed # {}
              /\ \A c \in e.changed :
                   /\ e.raw[1] <= -nx => c[1] = 0
                   /\ e.raw[2] <= -ny => c[2] = 0
                   /\ e.raw[3] <= -nz => c[3] = 0

\* without skip_invalid, a contribution with x index <= -nx has been
\* deposited into x cell 0
C9_VeryNegativeDeposited ==
    /\ last.kind # "none"
    /\ ~call.skip_invalid
    /\ \E j \in Contribs :
         /\ last.log[j].raw[1] <= -nx
         /\ \E c \in last.log[j].changed : c[1] = 0

\* C10: from zero grids, after any sequence of splat calls with sample values
\* in [0, Vmax] or negative, every cell has weight-sum >= 0 and
\* 0 <= value-sum <= Vmax * weight-sum.
C10_ValueSumBounded ==
    \A c \in Cells :
        /\ RLe(Zero, imagenum[c])
        /\ RLe(Zero, imagesum[c])
        /\ RLe(imagesum[c], RMul(Num(Vmax), imagenum[c]))

====
